---- MODULE Spec2Model ----
\* A model of the gofetch / gohans HTTP request builder and client:
\*   Client.Do   (src/tls_test.go 302-367, the same tail as src/client.go 73-124)
\*   Request.*   (src/client.go 135-275)
\* Response bodies are sequences of lexical units of a JSON subset: "{" and "}"
\* delimit an object, "a" stands for the text "error":"a" (one well-formed member
\* inside an object, the JSON string "error" followed by more at the top level), and
\* "]" is a byte no value may begin with and no object may hold.
EXTENDS Integers, Sequences, FiniteSets, Bags, TLC

\* defaultHeaders: the package-level map; reqs: the descriptors NewRequest returned;
\* run: the Do of each descriptor; actor: the descriptor the latest call was made on.
VARIABLES defaultHeaders, reqs, run, actor

\* client: the Client NewClient returned (httpClient is a pointer into httpClients);
\* httpClients: the http.Client objects of the program; opts: the options the latest
\* NewClient was given; now: the clock; ctx: the caller's context; net: the server's
\* delay and the start of the latest network operation; tls: the latest call of
\* TLSConfig; call: the latest call of a builder method; wire: the header of the
\* latest request an observed Client.Do handed to c.httpClient.Do; dec: the latest
\* call of decodeResponse.
VARIABLES client, httpClients, opts, now, ctx, net, tls, call, wire, dec

vars ==
  <<defaultHeaders, reqs, run, actor, client, httpClients, opts, now, ctx, net, tls, call,
    wire, dec>>

\* What the request builder and an untimed Do leave alone.
Frame == UNCHANGED <<client, httpClients, opts, now, ctx, net, tls, call, wire, dec>>

\* ---------------------------------------------------------------- bounds
MaxBodyLen == 3
MaxRetries == 2
MaxRequests == 2
MaxOpts == 3
MaxHTTPClients == 2
MaxTime == 3
MaxOptsEach == 2

\* ---------------------------------------------------------------- constants
StatusOK == 200
StatusInternalServerError == 500

\* ---------------------------------------------------------------- errors
Nil == "nil"
MissingURLError == "URL is missing"
ParseError == "parse: first path segment in URL cannot contain colon"
EncodeError == "json: unsupported value"
RequestBuildError == "net/http: invalid method"
TransportError == "transport error"
SyntaxError == "invalid character"
EOFError == "EOF"
UnexpectedEOFError == "unexpected EOF"
UnmarshalTypeError == "json: cannot unmarshal string into Go value"
UnexpectedStatusCodeError == "unexpected status code"
ClientTimeoutError == "context deadline exceeded (Client.Timeout exceeded while awaiting headers)"
DeadlineExceededError == "context deadline exceeded"
CanceledError == "context canceled"
InvalidContentTypeError == "invalid content type"

\* ---------------------------------------------------------------- byte slices
\* A Go []byte: nil, or a sequence of units.
NilBytes == [nil |-> TRUE, data |-> <<>>]

\* bytes.Buffer.Bytes(): the zero Buffer nothing was written to yields a nil slice.
BufBytes(buf) == IF buf = <<>> THEN NilBytes ELSE [nil |-> FALSE, data |-> buf]

Byte == {"{", "}", "a", "]"}

Bodies == UNION {[1..k -> Byte] : k \in 0..MaxBodyLen}

\* ---------------------------------------------------------------- header maps
\* map[string]string: a function whose DOMAIN is the set of keys present.
\* Mutant: the write replaces the map by one that holds the new entry only.
MapSet_Fresh(h, k, v) == [x \in {k} |-> v]

\* h[k] = v
MapSet(h, k, v) == [x \in (DOMAIN h) \cup {k} |-> IF x = k THEN v ELSE h[x]]

DefaultHeaderMap == [k \in {"Content-Type", "Accept"} |-> "application/json"]

\* textproto.CanonicalMIMEHeaderKey on the keys the model uses.
Canon(k) == IF k = "accept" THEN "Accept" ELSE k

\* http.Header: each canonical name with the values held under it, a bag since
\* the order of the values added by a range over a map is not fixed.
NoHeader == <<>>

\* for k, v := range r.Headers { req.Header.Add(k, v) }: the outgoing header maps
\* each canonical name to the values added under it, one per entry of that name.
ApplyHeaders(h) ==
  [c \in {Canon(k) : k \in DOMAIN h} |->
     LET keys == {x \in DOMAIN h : Canon(x) = c}
     IN [v \in {h[k] : k \in keys} |-> Cardinality({k \in keys : h[k] = v})]]

\* http.Header.Get as the server reads Retry-Count: "" when absent.
RetryCountSeen(hdr) ==
  IF "Retry-Count" \in DOMAIN hdr
  THEN CHOOSE v \in BagToSet(hdr["Retry-Count"]) : TRUE
  ELSE ""

\* fmt.Sprint(i)
Sprint(i) == CASE i = 0 -> "0" [] i = 1 -> "1" [] i = 2 -> "2" [] i = 3 -> "3"
               [] i = 4 -> "4" [] OTHER -> "n"

\* ---------------------------------------------------------------- decode targets
\* r.response / r.errorResponse hold an interface value: nil, a pointer to a
\* caller's struct whose field holds val, a map the decoder allocated, or a string
\* the decoder stored.
NilTarget == [kind |-> "nil", val |-> ""]
PtrTarget(v) == [kind |-> "ptr", val |-> v]
MapTarget(v) == [kind |-> "map", val |-> v]
StrTarget == [kind |-> "string", val |-> "error"]

\* ---------------------------------------------------------------- json.Decoder
\* The value a stream that begins with the unit "a" begins with: the string "error".
StringValue == "\"error\""

\* scanner: the units of buf from position i on, in state st.
\* res: "end" a complete value, "error" a syntax error, "more" the buffer ran out.
\* val: "" an object without members, "a" an object with the member, or StringValue.
RECURSIVE ScanFrom(_, _, _, _)
ScanFrom(buf, i, st, val) ==
  IF i > Len(buf) THEN [res |-> "more", val |-> val]
  ELSE LET c == buf[i] IN
    CASE st = "begin" ->
           IF c = "{" THEN ScanFrom(buf, i + 1, "obj0", "")
           ELSE IF c = "a" THEN [res |-> "end", val |-> StringValue]
           ELSE [res |-> "error", val |-> ""]
      [] st = "obj0" ->
           IF c = "a" THEN ScanFrom(buf, i + 1, "obj1", "a")
           ELSE IF c = "}" THEN [res |-> "end", val |-> ""]
           ELSE [res |-> "error", val |-> ""]
      [] st = "obj1" ->
           IF c = "}" THEN [res |-> "end", val |-> val]
           ELSE [res |-> "error", val |-> ""]

RECURSIVE Concat(_, _)
Concat(segs, k) == IF k = 0 THEN <<>> ELSE Concat(segs, k - 1) \o segs[k]

\* The reads the response stream delivers: the server wrote the body in one piece,
\* or flushed after the first `flush` units.
ReadSegs(body, flush) ==
  IF body = <<>> THEN <<>>
  ELSE IF flush > 0 /\ flush < Len(body)
       THEN <<SubSeq(body, 1, flush), SubSeq(body, flush + 1, Len(body))>>
       ELSE <<body>>

\* Decoder.readValue over io.TeeReader(resp.Body, &buf): after k reads the decoder
\* has scanned what it read; it reads again only while the value is incomplete.
\* captured is what the tee wrote to buf.
RECURSIVE ReadValue(_, _)
ReadValue(segs, k) ==
  LET have == Concat(segs, k)
      s == ScanFrom(have, 1, "begin", "")
  IN CASE s.res = "end" -> [err |-> Nil, val |-> s.val, captured |-> have]
       [] s.res = "error" -> [err |-> SyntaxError, val |-> "", captured |-> have]
       [] OTHER ->
            IF k < Len(segs) THEN ReadValue(segs, k + 1)
            ELSE [err |-> IF have = <<>> THEN EOFError ELSE UnexpectedEOFError,
                  val |-> "", captured |-> have]

\* Decoder.Decode(&target) once the value v was read: a string does not fit a
\* struct (*json.UnmarshalTypeError).
UnmarshalError(target, v) ==
  IF target.kind = "ptr" /\ v = StringValue THEN UnmarshalTypeError ELSE Nil

\* Decoder.Decode(&target) once the value v was read: a pointer target keeps the
\* fields the object does not name and is left alone by a string; an interface
\* holding no pointer gets a new map, or the string.
Unmarshal(target, v) ==
  IF target.kind = "ptr"
  THEN IF v = StringValue THEN target ELSE PtrTarget(IF v = "" THEN target.val ELSE v)
  ELSE IF v = StringValue THEN StrTarget ELSE MapTarget(v)

\* ---------------------------------------------------------------- inputs
ValidMethod(m) == m \in {"GET", "POST"}
ParseOK(u) == u # "::bad"
NoBody == "nil"
Encodable(b) == b # "+Inf"

\* ---------------------------------------------------------------- descriptors
\* NewRequest(): Headers is the package-level map itself, held by reference.
NewRequestValue ==
  [Method |-> "GET", URL |-> "", Headers |-> "defaultHeaders", Body |-> NoBody,
   retries |-> 0, expectedStatusCode |-> 200, response |-> NilTarget,
   errorResponse |-> PtrTarget(""), statusCode |-> 0]

\* What a (bytes, error) pair of Client.Do / Request.Do looks like in the model.
NoResult == [returned |-> FALSE, bytes |-> NilBytes, err |-> Nil]
Result(b, e) == [returned |-> TRUE, bytes |-> b, err |-> e]

\* One Request.Do in progress or finished: pc its position, i the loop counter,
\* ret what it returned, last the pair of the latest c.Do, log one entry per c.Do.
\* env is the transport outcome of the latest c.Do that reached the transport;
\* ranged the maps the range loop of a c.Do of a concurrent send may have read.
NoEnv ==
  [kind |-> "none", seen |-> FALSE, status |-> 0, body |-> <<>>, flush |-> 0, err |-> Nil]
IdleRun ==
  [pc |-> "idle", i |-> 0, ret |-> NoResult, last |-> NoResult, log |-> <<>>,
   env |-> NoEnv, ranged |-> {}]

\* ---------------------------------------------------------------- transport
\* What c.httpClient.Do does with a request: it fails (the server may or may not
\* have seen the request), or it yields a response.
AbortError(err, seen) ==
  [kind |-> "error", seen |-> seen, status |-> 0, body |-> <<>>, flush |-> 0, err |-> err]
NetError(seen) == AbortError(TransportError, seen)
Response(st, body, flush) ==
  [kind |-> "resp", seen |-> TRUE, status |-> st, body |-> body, flush |-> flush,
   err |-> Nil]

Statuses == {StatusOK, StatusInternalServerError}

AllOutcomes ==
  {NetError(s) : s \in BOOLEAN}
    \cup {Response(st, b, f) : st \in Statuses, b \in Bodies, f \in 0..MaxBodyLen}

\* The servers of the retry runs answer with one of four bodies, written whole.
SendBodies == {<<"{", "a", "}">>, <<"{", "}">>, <<"{", "]">>, <<"a">>}
SendOutcomes ==
  {NetError(s) : s \in BOOLEAN} \cup {Response(st, b, 0) : st \in Statuses, b \in SendBodies}

\* The value of the response's Content-Type header. A handler that sets none gets
\* the type the server sniffs from a JSON body.
ContentTypes == {"application/json", "application/xml", "text/plain; charset=utf-8"}

\* "<" stands for a well-formed XML document, <Error><error>a</error></Error>:
\* to the JSON scanner it is a byte no value begins with.
XMLDocument == <<"<">>

\* A response with a declared content type, written whole.
TypedResponse(ct, st, body) ==
  [kind |-> "resp", seen |-> TRUE, status |-> st, body |-> body, flush |-> 0,
   err |-> Nil, ct |-> ct]

TypedOutcomes ==
  {TypedResponse(ct, st, b) :
     ct \in ContentTypes, st \in Statuses, b \in {<<"{", "a", "}">>, XMLDocument, <<>>}}

\* ---------------------------------------------------------------- decodeResponse
\* resp.Header: each name present with its values in order.
\* http.Header.Get(name): the first value held under name, "" when there is none.
HeaderGet(header, name) ==
  IF name \in DOMAIN header /\ header[name] # <<>> THEN header[name][1] ELSE ""

\* json.NewDecoder(resp.Body).Decode(&result): read is the number of units taken
\* from the body. result is the parameter, a copy of the caller's interface value:
\* the caller sees what was written through a pointer it holds.
DecodeJSON(body, result) ==
  LET d == ReadValue(ReadSegs(body, 0), 0)
  IN [err |-> IF d.err # Nil THEN d.err ELSE UnmarshalError(result, d.val),
      result |-> IF d.err = Nil /\ result.kind = "ptr" THEN Unmarshal(result, d.val)
                 ELSE result,
      read |-> Len(d.captured)]

\* xml.NewDecoder(resp.Body).Decode(&result): the decoder passes over character
\* data until an element starts and fails with io.EOF when none does; an interface
\* holding a pointer to a struct gets the element's fields, an interface holding
\* nothing has the element skipped.
DecodeXML(body, result) ==
  IF \E i \in 1..Len(body) : body[i] = "<"
  THEN [err |-> Nil,
        result |-> IF result.kind = "ptr" THEN PtrTarget("a") ELSE result,
        read |-> Len(body)]
  ELSE [err |-> EOFError, result |-> result, read |-> Len(body)]

\* Mutant: a content type that is not listed is decoded as JSON.
decodeResponse_DefaultJSON(resp, result) ==
  LET ct == HeaderGet(resp.Header, "Content-Type")
  IN CASE ct = "application/json" -> DecodeJSON(resp.Body, result)
       [] ct = "application/xml" -> DecodeXML(resp.Body, result)
       [] OTHER -> DecodeJSON(resp.Body, result)

\* decodeResponse(resp, result)
decodeResponse(resp, result) ==
  LET ct == HeaderGet(resp.Header, "Content-Type")
  IN CASE ct = "application/json" -> DecodeJSON(resp.Body, result)
       [] ct = "application/xml" -> DecodeXML(resp.Body, result)
       [] OTHER -> [err |-> InvalidContentTypeError, result |-> result, read |-> 0]

\* A response header without a Content-Type: the server's Date only.
UntypedHeader == [n \in {"Date"} |-> <<"now">>]

\* The program has not called decodeResponse.
NoDecodeCall ==
  [called |-> FALSE, resp |-> [Body |-> <<>>, Header |-> UntypedHeader],
   result |-> NilTarget,
   ret |-> [err |-> Nil, result |-> NilTarget, read |-> 0]]

\* err := decodeResponse(resp, result)
CallDecodeResponse(resp, result) ==
  /\ dec' = [called |-> TRUE, resp |-> resp, result |-> result,
             ret |-> decodeResponse(resp, result)]
  /\ UNCHANGED <<defaultHeaders, reqs, run, actor, client, httpClients, opts, now,
                 ctx, net, tls, call, wire>>

\* ---------------------------------------------------------------- Client
\* *slog.Logger values.
NilLogger == "nil"
DefaultLogger == "slog.Default()"

\* *tls.Config values the options are given.
TLSConfigs == {"tlsA", "tlsB"}

\* http.Client: the fields the options write. Transport is nil or a *http.Transport
\* with the given TLSClientConfig.
NilTransport == [nil |-> TRUE, TLSClientConfig |-> "nil"]
Transport(tlsConfig) == [nil |-> FALSE, TLSClientConfig |-> tlsConfig]
ZeroHTTPClient == [Timeout |-> 0, Transport |-> NilTransport]

\* The http.Client objects the caller owns before NewClient: the first is
\* &http.Client{}, the others carry a timeout and a transport of their own.
CallerHTTPClient(h) ==
  IF h = 1 THEN ZeroHTTPClient ELSE [Timeout |-> h - 1, Transport |-> Transport("own")]

\* A RequestOption: the closure and the value it captured.
Option(kind, hc, tlsConfig, td, logger) ==
  [kind |-> kind, httpClient |-> hc, tlsConfig |-> tlsConfig, td |-> td, logger |-> logger]
WithTLSClientConfig(tlsConfig) == Option("WithTLSClientConfig", 0, tlsConfig, 0, NilLogger)
WithTimeout(td) == Option("WithTimeout", 0, "nil", td, NilLogger)
WithHTTPClient(hc) == Option("WithHTTPClient", hc, "nil", 0, NilLogger)
WithLogger(logger) == Option("WithLogger", 0, "nil", 0, logger)

\* opt(c): st.c is the Client, st.heap the http.Client objects c.httpClient may
\* point to.
ApplyOption(st, opt) ==
  CASE opt.kind = "WithTLSClientConfig" ->
         [st EXCEPT !.heap[st.c.httpClient].Transport = Transport(opt.tlsConfig)]
    [] opt.kind = "WithTimeout" ->
         [st EXCEPT !.heap[st.c.httpClient].Timeout = opt.td]
    [] opt.kind = "WithHTTPClient" -> [st EXCEPT !.c.httpClient = opt.httpClient]
    [] opt.kind = "WithLogger" -> [st EXCEPT !.c.logger = opt.logger]

\* for _, opt := range opts { opt(c) }: the first k options, in order.
RECURSIVE ApplyOptions(_, _, _)
ApplyOptions(st, o, k) ==
  IF k = 0 THEN st ELSE ApplyOption(ApplyOptions(st, o, k - 1), o[k])

\* c := &Client{httpClient: &http.Client{}}: the new http.Client is object 0.
NewClientValue == [logger |-> NilLogger, httpClient |-> 0]

\* if c.logger == nil { c.logger = slog.Default() }
LoggerOrDefault(logger) == IF logger = NilLogger THEN DefaultLogger ELSE logger

\* NewClient(ctx, o...)
NewClient(o) ==
  LET st == ApplyOptions([c |-> NewClientValue,
                          heap |-> [httpClients EXCEPT ![0] = ZeroHTTPClient]], o, Len(o))
  IN /\ client' = [st.c EXCEPT !.logger = LoggerOrDefault(@)]
     /\ httpClients' = st.heap
     /\ opts' = o
     /\ UNCHANGED <<defaultHeaders, reqs, run, actor, now, ctx, net, tls, call, wire,
                    dec>>

\* A second NewClient(ctx, o...) of the same program: its &http.Client{} is a new
\* object, MaxHTTPClients + 1; the Client built before stays with its caller.
NewClientAgain(o) ==
  LET f == MaxHTTPClients + 1
      st == ApplyOptions([c |-> [NewClientValue EXCEPT !.httpClient = f],
                          heap |-> [h \in 0..f |->
                                      IF h = f THEN ZeroHTTPClient ELSE httpClients[h]]],
                         o, Len(o))
  IN /\ DOMAIN httpClients = 0..MaxHTTPClients
     /\ client' = [st.c EXCEPT !.logger = LoggerOrDefault(@)]
     /\ httpClients' = st.heap
     /\ opts' = o
     /\ UNCHANGED <<defaultHeaders, reqs, run, actor, now, ctx, net, tls, call, wire,
                    dec>>

\* ---------------------------------------------------------------- TLSConfig
MissingPathsError == "TLS Key and Cert file paths not provided, TLS not configured"
ReadCAError == "could not read certificate"
ParseCAError == "could not parse any PEM certificates"
KeyPairError == "could not load keypair"

\* The files of the test directory: "missing" does not exist, "garbage" is no PEM,
\* "other.key" is a private key that does not belong to "cert.pem".
CAPaths == {"", "missing", "garbage", "ca.pem"}
CertPaths == {"", "missing", "garbage", "cert.pem"}
KeyPaths == {"", "missing", "key.pem", "other.key"}

\* os.ReadFile(path) returns no error.
Readable(path) == path \notin {"", "missing"}

\* pool.AppendCertsFromPEM(pem) found a certificate in the file.
HasCertificate(path) == path \in {"ca.pem", "cert.pem"}

\* tls.LoadX509KeyPair(certFile, keyFile) returns no error.
KeyPairLoads(certFile, keyFile) == certFile = "cert.pem" /\ keyFile = "key.pem"

\* A *tls.Config: nil, or the fields TLSConfig sets.
NilTLSConf ==
  [nil |-> TRUE, InsecureSkipVerify |-> FALSE, RootCAs |-> "", Certificates |-> <<>>]
TLSConf(insecureSkipVerify, rootCAs, certificates) ==
  [nil |-> FALSE, InsecureSkipVerify |-> insecureSkipVerify, RootCAs |-> rootCAs,
   Certificates |-> certificates]

\* Mutant: the key pair is loaded before the CA file is read.
TLSConfig_KeyPairFirst(TLSCA, TLSCert, TLSKey, insecureSkipVerify) ==
  IF TLSKey = "" \/ TLSCert = "" THEN [conf |-> NilTLSConf, err |-> MissingPathsError]
  ELSE IF ~KeyPairLoads(TLSCert, TLSKey) THEN [conf |-> NilTLSConf, err |-> KeyPairError]
  ELSE IF TLSCA # "" /\ ~Readable(TLSCA) THEN [conf |-> NilTLSConf, err |-> ReadCAError]
  ELSE IF TLSCA # "" /\ ~HasCertificate(TLSCA)
  THEN [conf |-> NilTLSConf, err |-> ParseCAError]
  ELSE [conf |-> TLSConf(insecureSkipVerify, TLSCA, <<TLSCert>>), err |-> Nil]

\* TLSConfig(ctx, TLSCA, TLSCert, TLSKey, insecureSkipVerify)
TLSConfig(TLSCA, TLSCert, TLSKey, insecureSkipVerify) ==
  IF TLSKey = "" \/ TLSCert = "" THEN [conf |-> NilTLSConf, err |-> MissingPathsError]
  ELSE IF TLSCA # "" /\ ~Readable(TLSCA) THEN [conf |-> NilTLSConf, err |-> ReadCAError]
  ELSE IF TLSCA # "" /\ ~HasCertificate(TLSCA)
  THEN [conf |-> NilTLSConf, err |-> ParseCAError]
  ELSE IF TLSCert # "" /\ TLSKey # "" /\ ~KeyPairLoads(TLSCert, TLSKey)
  THEN [conf |-> NilTLSConf, err |-> KeyPairError]
  ELSE [conf |-> TLSConf(insecureSkipVerify, TLSCA, <<TLSCert>>), err |-> Nil]

\* The program has not called TLSConfig.
NoTLSCall ==
  [called |-> FALSE, TLSCA |-> "", TLSCert |-> "", TLSKey |-> "",
   insecureSkipVerify |-> FALSE, conf |-> NilTLSConf, err |-> Nil]

\* conf, err := TLSConfig(ctx, ca, cert, key, insecure)
CallTLSConfig(ca, cert, key, insecure) ==
  LET ret == TLSConfig(ca, cert, key, insecure)
  IN /\ tls' = [called |-> TRUE, TLSCA |-> ca, TLSCert |-> cert, TLSKey |-> key,
                insecureSkipVerify |-> insecure, conf |-> ret.conf, err |-> ret.err]
     /\ UNCHANGED <<defaultHeaders, reqs, run, actor, client, httpClients, opts, now,
                    ctx, net, call, wire, dec>>

\* ---------------------------------------------------------------- builder calls
\* The latest call of a builder method: the method, the descriptor it was called on,
\* its arguments by type, and the descriptor it returned.
NoCall ==
  [op |-> "none", d |-> 0, str |-> "", value |-> "", num |-> 0, target |-> NilTarget,
   ret |-> 0]

\* return r: a builder method returns the descriptor it was called on.
Called(op, d, str, value, num, target) ==
  /\ call' = [op |-> op, d |-> d, str |-> str, value |-> value, num |-> num,
              target |-> target, ret |-> d]
  /\ UNCHANGED <<client, httpClients, opts, now, ctx, net, tls, wire, dec>>

\* ---------------------------------------------------------------- deadlines
\* A context.Context: cancels says whether it ever ends, done is the time its Done
\* channel closes, err what Err() returns from then on.
Background == [cancels |-> FALSE, done |-> 0, err |-> Nil]
DeadlineCtx(t) == [cancels |-> TRUE, done |-> t, err |-> DeadlineExceededError]
CancelCtx(t) == [cancels |-> TRUE, done |-> t, err |-> CanceledError]

\* The latest network operation: when it began and how long the server takes to
\* answer it.
NoFlight == [delay |-> 0, start |-> 0]

Min(S) == CHOOSE x \in S : \A y \in S : x <= y

\* Mutant: the client's timeout is not armed.
Deadlines_NoTimer(hc, cx, t0) ==
  {[at |-> IF cx.done < t0 THEN t0 ELSE cx.done, err |-> cx.err] :
     x \in {1} \cap {IF cx.cancels THEN 1 ELSE 0}}

\* The deadlines of a request that begins at t0: the timer of hc.Timeout (0 means no
\* timeout) and the end of the request's context.
Deadlines(hc, cx, t0) ==
  {[at |-> t0 + hc.Timeout, err |-> ClientTimeoutError] : x \in {1} \cap {IF hc.Timeout > 0 THEN 1 ELSE 0}}
    \cup {[at |-> IF cx.done < t0 THEN t0 ELSE cx.done, err |-> cx.err] :
            x \in {1} \cap {IF cx.cancels THEN 1 ELSE 0}}

\* c.httpClient.Do(req) for a request made with NewRequestWithContext(ctx, ...) at
\* time t0, when the server would answer srv after delay: the outcomes and the time
\* each is returned at. A context that has ended is never dispatched; whatever comes
\* first decides, and a tie goes either way.
RoundTrip(hc, cx, t0, srv, delay) ==
  LET dls == Deadlines(hc, cx, t0)
      answer == t0 + delay
      first == Min({answer} \cup {dl.at : dl \in dls})
      ended == cx.cancels /\ cx.done <= t0
  IN {[env |-> srv, at |-> answer] : x \in {1} \cap {IF answer = first /\ ~ended THEN 1 ELSE 0}}
       \cup {[env |-> AbortError(dl.err, dl.at > t0), at |-> dl.at] :
               dl \in {x \in dls : x.at = first}}

\* ---------------------------------------------------------------- Client.Do
\* Mutant: the empty-URL check is missing.
PreDispatchError_NoURLCheck(r) ==
  IF ~ParseOK(r.URL) THEN ParseError
  ELSE IF r.Body # NoBody /\ ~Encodable(r.Body) THEN EncodeError
  ELSE IF ~ValidMethod(r.Method) THEN RequestBuildError
  ELSE Nil

\* Mutant: the body is encoded before the URL is parsed.
PreDispatchError_EncodeFirst(r) ==
  IF r.URL = "" THEN MissingURLError
  ELSE IF r.Body # NoBody /\ ~Encodable(r.Body) THEN EncodeError
  ELSE IF ~ParseOK(r.URL) THEN ParseError
  ELSE IF ~ValidMethod(r.Method) THEN RequestBuildError
  ELSE Nil

\* The checks before c.httpClient.Do: Nil when the request can be dispatched.
PreDispatchError(r) ==
  IF r.URL = "" THEN MissingURLError
  ELSE IF ~ParseOK(r.URL) THEN ParseError
  ELSE IF r.Body # NoBody /\ ~Encodable(r.Body) THEN EncodeError
  ELSE IF ~ValidMethod(r.Method) THEN RequestBuildError
  ELSE Nil

\* Mutant: the comparison is inverted.
StatusMismatch_Inverted(r, status) == status = r.expectedStatusCode

\* resp.StatusCode != r.expectedStatusCode
StatusMismatch(r, status) == status # r.expectedStatusCode

\* Mutant: the mismatch error hides the decode failure.
MismatchError_Always(decErr) == UnexpectedStatusCodeError

\* The error of the mismatch branch, given the error of decoding the error body.
MismatchError(decErr) == IF decErr # Nil THEN decErr ELSE UnexpectedStatusCodeError

\* Mutant: the status is recorded only when it is the expected one.
RecordStatus_OnMatch(r, status) ==
  IF status = r.expectedStatusCode THEN [r EXCEPT !.statusCode = status] ELSE r

\* r.statusCode = resp.StatusCode
RecordStatus(r, status) == [r EXCEPT !.statusCode = status]

\* Mutant: the value is decoded into both targets.
Decoded_Both(r, mismatch, v) ==
  [r EXCEPT !.errorResponse = Unmarshal(@, v), !.response = Unmarshal(@, v)]

\* Decode(&r.errorResponse) in the mismatch branch, Decode(&r.response) otherwise,
\* once the value v was read.
Decoded(r, mismatch, v) ==
  IF mismatch
  THEN [r EXCEPT !.errorResponse = Unmarshal(@, v)]
  ELSE [r EXCEPT !.response = Unmarshal(@, v)]

\* Client.Do(ctx, r) with header map h behind r.Headers and transport outcome env.
\* req: the descriptor afterwards; sent: the request was handed to the transport;
\* seen: the server observed it; hdr: the header it carried.
ClientDo(r, h, env) ==
  LET pre == PreDispatchError(r)
      hdr == ApplyHeaders(h)
  IN IF pre # Nil
     THEN [req |-> r, bytes |-> NilBytes, err |-> pre, sent |-> FALSE,
           seen |-> FALSE, hdr |-> NoHeader]
     ELSE IF env.kind = "error"
     THEN [req |-> r, bytes |-> NilBytes, err |-> env.err, sent |-> TRUE,
           seen |-> env.seen, hdr |-> hdr]
     ELSE LET r1 == RecordStatus(r, env.status)
              d == ReadValue(ReadSegs(env.body, env.flush), 0)
              mismatch == StatusMismatch(r, env.status)
              target == IF mismatch THEN r.errorResponse ELSE r.response
              decErr == IF d.err # Nil THEN d.err ELSE UnmarshalError(target, d.val)
          IN [req |-> IF d.err = Nil THEN Decoded(r1, mismatch, d.val) ELSE r1,
              bytes |-> BufBytes(d.captured),
              err |-> IF mismatch THEN MismatchError(decErr) ELSE decErr,
              sent |-> TRUE, seen |-> TRUE, hdr |-> hdr]

\* The log entry of one c.Do: what the server read as Retry-Count, the outcome.
LogEntry(res, env) ==
  [rc |-> RetryCountSeen(res.hdr), err |-> res.err, sent |-> res.sent,
   seen |-> res.seen, resp |-> res.sent /\ env.kind = "resp"]

\* The map a descriptor's Headers field refers to.
HeldHeaders(ref) == defaultHeaders

\* ---------------------------------------------------------------- Request setters
\* No call is in progress: a sequential caller is inside at most one Do at a time.
Quiet == \A d \in 1..Len(reqs) : run[d].pc \in {"idle", "done"}

Building(d) == d \in 1..Len(reqs) /\ Quiet /\ run[d].pc = "idle"

NewRequest ==
  /\ Quiet
  /\ reqs' = Append(reqs, NewRequestValue)
  /\ run' = Append(run, IdleRun)
  /\ actor' = Len(reqs) + 1
  /\ UNCHANGED defaultHeaders

SetMethod(d, method) ==
  /\ Building(d)
  /\ reqs' = [reqs EXCEPT ![d].Method = method]
  /\ actor' = d
  /\ UNCHANGED <<defaultHeaders, run>>

SetURL(d, url) ==
  /\ Building(d)
  /\ reqs' = [reqs EXCEPT ![d].URL = url]
  /\ actor' = d
  /\ UNCHANGED <<defaultHeaders, run>>

SetRequestBody(d, body) ==
  /\ Building(d)
  /\ reqs' = [reqs EXCEPT ![d].Body = body]
  /\ actor' = d
  /\ UNCHANGED <<defaultHeaders, run>>

SetWantedResponseBody(d, target) ==
  /\ Building(d)
  /\ reqs' = [reqs EXCEPT ![d].response = target]
  /\ actor' = d
  /\ UNCHANGED <<defaultHeaders, run>>

SetErrorResponseBody(d, target) ==
  /\ Building(d)
  /\ reqs' = [reqs EXCEPT ![d].errorResponse = target]
  /\ actor' = d
  /\ UNCHANGED <<defaultHeaders, run>>

SetExpectedStatusCode(d, code) ==
  /\ Building(d)
  /\ reqs' = [reqs EXCEPT ![d].expectedStatusCode = code]
  /\ actor' = d
  /\ UNCHANGED <<defaultHeaders, run>>

EnableRetries(d, n) ==
  /\ Building(d)
  /\ reqs' = [reqs EXCEPT ![d].retries = n]
  /\ actor' = d
  /\ UNCHANGED <<defaultHeaders, run>>

\* r.Headers[key] = value: the write goes to the map r.Headers refers to.
AddHeader(d, key, value) ==
  /\ Building(d)
  /\ defaultHeaders' = MapSet(defaultHeaders, key, value)
  /\ actor' = d
  /\ UNCHANGED <<reqs, run>>

\* fmt.Sprintf("Bearer %s", token)
Bearer(token) == IF token = "t" THEN "Bearer t" ELSE "Bearer"

SetAuthToken(d, token) ==
  /\ Building(d)
  /\ defaultHeaders' = MapSet(defaultHeaders, "Authorization", Bearer(token))
  /\ actor' = d
  /\ UNCHANGED <<reqs, run>>

\* ---------------------------------------------------------------- Request.Do
\* Mutant: the loop returns after its first attempt, whatever the error.
LoopReturns_Always(err) == TRUE

\* Mutant: the loop never returns early.
LoopReturns_Never(err) == FALSE

\* if err == nil { return body, nil }
LoopReturns(err) == err = Nil

\* Mutant: the attempts are numbered from one.
RetryCountValue_OneBased(i) == Sprint(i + 1)

\* The value of r.AddHeader("Retry-Count", fmt.Sprint(i)) in iteration i.
RetryCountValue(i) == Sprint(i)

\* Mutant: the error of the last call is dropped.
FinalReturn_Swallow(pair) == [pair EXCEPT !.err = Nil]

\* return c.Do(ctx, r): the pair of the call is the pair of Request.Do.
FinalReturn(pair) == pair

\* i++ ; i < r.retries
LoopContinues(i, retries) == i + 1 < retries

\* body, err := c.Do(ctx, r) of a loop iteration whose range loop read the header
\* map as h, and the return or the next iteration.
LoopStep(d, h, env) ==
  LET i == run[d].i
      res == ClientDo(reqs[d], h, env)
      pair == Result(res.bytes, res.err)
  IN /\ actor' = d
     /\ reqs' = [reqs EXCEPT ![d] = res.req]
     /\ run' = [run EXCEPT ![d] =
          [pc |-> IF LoopReturns(res.err) THEN "done"
                  ELSE IF LoopContinues(i, reqs[d].retries) THEN "loop" ELSE "final",
           i |-> i + 1,
           ret |-> IF LoopReturns(res.err) THEN Result(res.bytes, Nil) ELSE NoResult,
           last |-> pair,
           log |-> Append(@.log, LogEntry(res, env)),
           env |-> IF res.sent THEN env ELSE NoEnv,
           ranged |-> {}]]

\* The rest of an iteration of the retry loop once the header map is h: c.Do(ctx, r),
\* and the return or the next iteration.
LoopDo(d, h, env) ==
  /\ defaultHeaders' = h
  /\ LoopStep(d, h, env)

\* One iteration of the retry loop: r.AddHeader("Retry-Count", fmt.Sprint(i)),
\* c.Do(ctx, r), and the return or the next iteration.
LoopAttempt(d, env) ==
  /\ d \in 1..Len(reqs)
  /\ \/ Building(d) /\ reqs[d].retries > 0
     \/ run[d].pc = "loop"
  /\ LoopDo(d, MapSet(defaultHeaders, "Retry-Count", RetryCountValue(run[d].i)), env)

\* One c.Do(ctx, r) whose pair is what the caller gets, its range loop having read
\* the header map as h.
FinalStep(d, h, env) ==
  LET res == ClientDo(reqs[d], h, env)
      pair == Result(res.bytes, res.err)
  IN /\ reqs' = [reqs EXCEPT ![d] = res.req]
     /\ run' = [run EXCEPT ![d] =
          [pc |-> "done", i |-> @.i, ret |-> FinalReturn(pair), last |-> pair,
           log |-> Append(@.log, LogEntry(res, env)),
           env |-> IF res.sent THEN env ELSE NoEnv,
           ranged |-> {}]]
     /\ actor' = d
     /\ UNCHANGED defaultHeaders

\* One c.Do(ctx, r) whose pair is what the caller gets.
DoStep(d, env) == FinalStep(d, defaultHeaders, env)

\* return c.Do(ctx, r): reached with retries <= 0, or after the loop ran out.
FinalAttempt(d, env) ==
  /\ d \in 1..Len(reqs)
  /\ \/ Building(d) /\ ~(reqs[d].retries > 0)
     \/ run[d].pc = "final"
  /\ DoStep(d, env)

\* client.Do(ctx, r) called by the program itself, without Request.Do.
DoCall(d, env) ==
  /\ Building(d)
  /\ DoStep(d, env)

\* client.Do(ctx, r) with the request it hands to the transport kept in view.
ObservedDoCall(d, env) ==
  /\ DoCall(d, env)
  /\ wire' = ClientDo(reqs[d], defaultHeaders, env).hdr
  /\ UNCHANGED <<client, httpClients, opts, now, ctx, net, tls, call, dec>>

\* ---------------------------------------------------------------- timed sends
\* ctx, cancel := context.WithDeadline(context.Background(), t)
WithDeadline(t) ==
  /\ ctx' = DeadlineCtx(t)
  /\ UNCHANGED <<defaultHeaders, reqs, run, actor, client, httpClients, opts, now, net,
                 tls, call, wire, dec>>

\* ctx, cancel := context.WithCancel(context.Background()), cancel() called at t
WithCancel(t) ==
  /\ ctx' = CancelCtx(t)
  /\ UNCHANGED <<defaultHeaders, reqs, run, actor, client, httpClients, opts, now, net,
                 tls, call, wire, dec>>

\* What a c.Do that takes time leaves behind: the clock at its return, the flight.
Elapse(d, o, delay) ==
  /\ now' = IF PreDispatchError(reqs[d]) = Nil THEN o.at ELSE now
  /\ net' = IF PreDispatchError(reqs[d]) = Nil THEN [delay |-> delay, start |-> now]
            ELSE net
  /\ UNCHANGED <<client, httpClients, opts, ctx, tls, call, wire, dec>>

\* One iteration of the retry loop against a server that answers srv after delay.
TimedLoopAttempt(d, srv, delay) ==
  \E o \in RoundTrip(httpClients[client.httpClient], ctx, now, srv, delay) :
    LoopAttempt(d, o.env) /\ Elapse(d, o, delay)

\* return c.Do(ctx, r) against a server that answers srv after delay.
TimedFinalAttempt(d, srv, delay) ==
  \E o \in RoundTrip(httpClients[client.httpClient], ctx, now, srv, delay) :
    FinalAttempt(d, o.env) /\ Elapse(d, o, delay)

\* ---------------------------------------------------------------- concurrent sends
\* Request.Do of several descriptors, each in a goroutine of its own. The accesses
\* to the header map take time: a goroutine is inside the write of AddHeader
\* ("writing") or inside the range loop of Client.Do ("ranging", "rangingFinal");
\* once its request is built it is outside the map, waiting for the server
\* ("waiting", "waitingFinal"). ranged is the set of maps the range loop may have
\* read: the map as it was when the loop began and as every write left it since.

\* r.AddHeader("Retry-Count", ...) begins.
BeginWrite(d) ==
  /\ d \in 1..Len(reqs)
  /\ \/ run[d].pc = "idle" /\ reqs[d].retries > 0
     \/ run[d].pc = "loop"
  /\ run' = [run EXCEPT ![d].pc = "writing"]
  /\ actor' = d
  /\ UNCHANGED <<defaultHeaders, reqs>>

\* The write of r.Headers["Retry-Count"] lands and AddHeader returns; a range loop
\* another goroutine is in may yield the entry as it is now.
EndWrite(d) ==
  LET h == MapSet(defaultHeaders, "Retry-Count", RetryCountValue(run[d].i))
  IN /\ d \in 1..Len(reqs)
     /\ run[d].pc = "writing"
     /\ defaultHeaders' = h
     /\ run' = [o \in 1..Len(reqs) |->
                  IF o = d THEN [run[o] EXCEPT !.pc = "armed"]
                  ELSE IF run[o].pc \in {"ranging", "rangingFinal"}
                  THEN [run[o] EXCEPT !.ranged = @ \cup {h}]
                  ELSE run[o]]
     /\ actor' = d
     /\ UNCHANGED reqs

\* The position of Request.Do at which it calls c.Do(ctx, r).
AtDo(d) ==
  \/ run[d].pc \in {"armed", "final"}
  \/ run[d].pc = "idle" /\ ~(reqs[d].retries > 0)

\* c.Do(ctx, r) fails a check before dispatch and returns without reading the map.
FailDo(d) ==
  /\ d \in 1..Len(reqs)
  /\ AtDo(d)
  /\ PreDispatchError(reqs[d]) # Nil
  /\ IF run[d].pc = "armed"
     THEN LoopStep(d, defaultHeaders, NoEnv) /\ UNCHANGED defaultHeaders
     ELSE FinalStep(d, defaultHeaders, NoEnv)

\* c.Do(ctx, r) passed its checks and reaches for k, v := range r.Headers.
BeginRange(d) ==
  /\ d \in 1..Len(reqs)
  /\ AtDo(d)
  /\ PreDispatchError(reqs[d]) = Nil
  /\ run' = [run EXCEPT ![d].pc = IF @ = "armed" THEN "ranging" ELSE "rangingFinal",
                        ![d].ranged = {defaultHeaders}]
  /\ actor' = d
  /\ UNCHANGED <<defaultHeaders, reqs>>

\* The range loop is over: the request carries the entries of one of the maps the
\* loop may have read, and c.httpClient.Do(req) waits for the server.
EndRange(d) ==
  /\ d \in 1..Len(reqs)
  /\ run[d].pc \in {"ranging", "rangingFinal"}
  /\ \E h \in run[d].ranged :
       run' = [run EXCEPT ![d].pc = IF @ = "ranging" THEN "waiting" ELSE "waitingFinal",
                          ![d].ranged = {h}]
  /\ actor' = d
  /\ UNCHANGED <<defaultHeaders, reqs>>

\* The map the range loop of the waiting c.Do read.
RangedMap(d) == CHOOSE h \in run[d].ranged : TRUE

\* The transport answers the c.Do of a loop iteration, which runs to its return.
EndLoopDo(d, env) ==
  /\ d \in 1..Len(reqs)
  /\ run[d].pc = "waiting"
  /\ LoopStep(d, RangedMap(d), env)
  /\ UNCHANGED defaultHeaders

\* The transport answers the c.Do of `return c.Do(ctx, r)`, which runs to its return.
EndFinalDo(d, env) ==
  /\ d \in 1..Len(reqs)
  /\ run[d].pc = "waitingFinal"
  /\ FinalStep(d, RangedMap(d), env)

\* Two goroutines are inside the same map and one of them writes.
MapRace ==
  \E d, o \in 1..Len(reqs) :
    /\ d # o
    /\ run[d].pc = "writing"
    /\ run[o].pc \in {"writing", "ranging", "rangingFinal"}

\* The runtime notices the race ("fatal error: concurrent map writes" or
\* "concurrent map iteration and map write") and ends the program; when it does
\* not notice, the goroutines go on.
Fatal ==
  /\ MapRace
  /\ run' = [d \in 1..Len(reqs) |-> [run[d] EXCEPT !.pc = "fatal"]]
  /\ UNCHANGED <<defaultHeaders, reqs, actor>>

\* ---------------------------------------------------------------- specifications
\* The program has called NewClient(ctx) and nothing else.
Init ==
  /\ defaultHeaders = DefaultHeaderMap
  /\ reqs = <<>>
  /\ run = <<>>
  /\ actor = 0
  /\ client = [NewClientValue EXCEPT !.logger = LoggerOrDefault(@)]
  /\ httpClients =
       [h \in 0..MaxHTTPClients |-> IF h = 0 THEN ZeroHTTPClient ELSE CallerHTTPClient(h)]
  /\ opts = <<>>
  /\ now = 0
  /\ ctx = Background
  /\ net = NoFlight
  /\ tls = NoTLSCall
  /\ call = NoCall
  /\ wire = NoHeader
  /\ dec = NoDecodeCall

Methods == {"GET", "POST", "BAD METHOD"}
URLs == {"", "::bad", "http://host"}
RequestBodies == {NoBody, "ok", "+Inf"}

\* Spec: a sequential program with several descriptors, their header setters and
\* their sends; the server answers 200 or 500 with a decodable body.
SpecOutcomes ==
  {Response(StatusOK, <<"{", "a", "}">>, 0),
   Response(StatusInternalServerError, <<"{", "a", "}">>, 0)}

Next ==
  \/ Len(reqs) < MaxRequests /\ NewRequest /\ Frame
  \/ \E d \in 1..Len(reqs) : SetURL(d, "http://host") /\ Frame
  \/ \E d \in 1..Len(reqs) : EnableRetries(d, MaxRetries) /\ Frame
  \/ \E d \in 1..Len(reqs) : AddHeader(d, "Accept", "application/xml") /\ Frame
  \/ \E d \in 1..Len(reqs) : SetAuthToken(d, "t") /\ Frame
  \/ \E d \in 1..Len(reqs), env \in SpecOutcomes : LoopAttempt(d, env) /\ Frame
  \/ \E d \in 1..Len(reqs), env \in SpecOutcomes : FinalAttempt(d, env) /\ Frame

Spec == Init /\ [][Next]_vars

\* SpecSend: one descriptor, any retry count, any server behaviour per attempt.
NextSend ==
  \/ Len(reqs) = 0 /\ NewRequest /\ Frame
  \/ \E d \in 1..Len(reqs), u \in {"", "http://host"} : SetURL(d, u) /\ Frame
  \/ \E d \in 1..Len(reqs), n \in 0..MaxRetries : EnableRetries(d, n) /\ Frame
  \/ \E d \in 1..Len(reqs), c \in Statuses : SetExpectedStatusCode(d, c) /\ Frame
  \/ \E d \in 1..Len(reqs) : SetWantedResponseBody(d, PtrTarget("")) /\ Frame
  \/ \E d \in 1..Len(reqs), env \in SendOutcomes : LoopAttempt(d, env) /\ Frame
  \/ \E d \in 1..Len(reqs), env \in SendOutcomes : FinalAttempt(d, env) /\ Frame

SpecSend == Init /\ [][NextSend]_vars

\* SpecDo: one descriptor, every field the checks of Client.Do read, one call of
\* Client.Do against every response the bounds allow.
NextDo ==
  \/ Len(reqs) = 0 /\ NewRequest /\ Frame
  \/ \E d \in 1..Len(reqs), m \in Methods : SetMethod(d, m) /\ Frame
  \/ \E d \in 1..Len(reqs), u \in URLs : SetURL(d, u) /\ Frame
  \/ \E d \in 1..Len(reqs), b \in RequestBodies : SetRequestBody(d, b) /\ Frame
  \/ \E d \in 1..Len(reqs), t \in {NilTarget, PtrTarget("")} : SetWantedResponseBody(d, t) /\ Frame
  \/ \E d \in 1..Len(reqs), t \in {NilTarget, PtrTarget("")} : SetErrorResponseBody(d, t) /\ Frame
  \/ \E d \in 1..Len(reqs), c \in Statuses : SetExpectedStatusCode(d, c) /\ Frame
  \/ \E d \in 1..Len(reqs), env \in AllOutcomes : DoCall(d, env) /\ Frame

SpecDo == Init /\ [][NextDo]_vars

\* SpecPre: one descriptor with every combination of URL, body and method, sent
\* with or without retries; the server answers 200 or 500 when it is reached.
NextPre ==
  \/ Len(reqs) = 0 /\ NewRequest /\ Frame
  \/ \E d \in 1..Len(reqs), m \in Methods : SetMethod(d, m) /\ Frame
  \/ \E d \in 1..Len(reqs), u \in URLs : SetURL(d, u) /\ Frame
  \/ \E d \in 1..Len(reqs), b \in RequestBodies : SetRequestBody(d, b) /\ Frame
  \/ \E d \in 1..Len(reqs), n \in 0..MaxRetries : EnableRetries(d, n) /\ Frame
  \/ \E d \in 1..Len(reqs), env \in SpecOutcomes : LoopAttempt(d, env) /\ Frame
  \/ \E d \in 1..Len(reqs), env \in SpecOutcomes : FinalAttempt(d, env) /\ Frame

SpecPre == Init /\ [][NextPre]_vars

\* SpecHdr: one descriptor whose header map gets entries under keys that differ in
\* case only and under keys of their own, and one call of Client.Do.
HeaderKeys == {"accept", "Accept", "X-Id"}
HeaderValues == {"application/json", "application/xml"}

NextHdr ==
  \/ Len(reqs) = 0 /\ NewRequest /\ Frame
  \/ \E d \in 1..Len(reqs) : SetURL(d, "http://host") /\ Frame
  \/ \E d \in 1..Len(reqs), k \in HeaderKeys, v \in HeaderValues : AddHeader(d, k, v) /\ Frame
  \/ \E d \in 1..Len(reqs) : SetAuthToken(d, "t") /\ Frame
  \/ \E d \in 1..Len(reqs), env \in SpecOutcomes : ObservedDoCall(d, env)

SpecHdr == Init /\ [][NextHdr]_vars

\* SpecDecode: calls of decodeResponse with every response header and body below
\* and a result that is a pointer to a struct or nil.
ResponseHeaders ==
  {UntypedHeader} \cup
  {[n \in {"Content-Type"} |-> v] :
     v \in {<<>>, <<"application/json">>, <<"application/xml">>,
            <<"application/invalid">>, <<"application/json; charset=utf-8">>,
            <<"text/xml">>, <<"Application/JSON">>,
            <<"application/xml", "application/json">>}}
DecodeBodies ==
  {<<>>, <<"{", "a", "}">>, <<"{", "}">>, <<"{", "]">>, <<"{">>, <<"a">>, XMLDocument}

NextDecode ==
  \/ \E h \in ResponseHeaders, b \in DecodeBodies, t \in {NilTarget, PtrTarget("")} :
       CallDecodeResponse([Body |-> b, Header |-> h], t)

SpecDecode == Init /\ [][NextDecode]_vars

\* SpecTime: one client with or without a timeout, a caller context that may end,
\* one descriptor with retries, a server that takes its time with every answer.
Times == 1..MaxTime
Delays == 0..(MaxTime + 1)

NextTime ==
  \/ \E td \in Times : Len(reqs) = 0 /\ opts = <<>> /\ NewClient(<<WithTimeout(td)>>)
  \/ \E t \in 0..MaxTime : Len(reqs) = 0 /\ ctx = Background /\ WithDeadline(t)
  \/ \E t \in 0..MaxTime : Len(reqs) = 0 /\ ctx = Background /\ WithCancel(t)
  \/ Len(reqs) = 0 /\ NewRequest /\ Frame
  \/ \E d \in 1..Len(reqs) : SetURL(d, "http://host") /\ Frame
  \/ \E d \in 1..Len(reqs), n \in 0..MaxRetries : EnableRetries(d, n) /\ Frame
  \/ \E d \in 1..Len(reqs), srv \in SpecOutcomes, delay \in Delays :
       TimedLoopAttempt(d, srv, delay)
  \/ \E d \in 1..Len(reqs), srv \in SpecOutcomes, delay \in Delays :
       TimedFinalAttempt(d, srv, delay)

SpecTime == Init /\ [][NextTime]_vars

\* SpecCT: one descriptor, one Client.Do against servers that declare the content
\* type of what they answer.
NextCT ==
  \/ Len(reqs) = 0 /\ NewRequest /\ Frame
  \/ \E d \in 1..Len(reqs) : SetURL(d, "http://host") /\ Frame
  \/ \E d \in 1..Len(reqs) : AddHeader(d, "Accept", "application/xml") /\ Frame
  \/ \E d \in 1..Len(reqs), t \in {NilTarget, PtrTarget("")} :
       SetWantedResponseBody(d, t) /\ Frame
  \/ \E d \in 1..Len(reqs), c \in Statuses : SetExpectedStatusCode(d, c) /\ Frame
  \/ \E d \in 1..Len(reqs), env \in TypedOutcomes : DoCall(d, env) /\ Frame

SpecCT == Init /\ [][NextCT]_vars

\* SpecClient: one call of NewClient with every list of options the bounds allow;
\* http.Client 1..MaxHTTPClients are the caller's.
Options ==
  {WithHTTPClient(h) : h \in 1..MaxHTTPClients}
    \cup {WithTLSClientConfig(t) : t \in TLSConfigs}
    \cup {WithTimeout(td) : td \in 1..MaxTime}
    \cup {WithLogger("custom")}

OptionLists == UNION {[1..k -> Options] : k \in 0..MaxOpts}

NextClient ==
  \/ \E o \in OptionLists : opts = <<>> /\ NewClient(o)

SpecClient == Init /\ [][NextClient]_vars

\* SpecClients: two calls of NewClient, one after the other, over the same
\* http.Client objects of the caller; each with up to MaxOptsEach options.
ShortOptionLists == {o \in OptionLists : Len(o) <= MaxOptsEach}

NextClients ==
  \/ \E o \in ShortOptionLists : opts = <<>> /\ NewClient(o)
  \/ \E o \in ShortOptionLists : opts # <<>> /\ NewClientAgain(o)

SpecClients == Init /\ [][NextClients]_vars

\* SpecTLS: calls of TLSConfig with every combination of the paths.
NextTLS ==
  \/ \E ca \in CAPaths, cert \in CertPaths, key \in KeyPaths, insecure \in BOOLEAN :
       CallTLSConfig(ca, cert, key, insecure)

SpecTLS == Init /\ [][NextTLS]_vars

\* SpecBuild: one descriptor and every builder method, each call recorded.
NextBuild ==
  \/ Len(reqs) = 0 /\ NewRequest /\ Frame
  \/ \E d \in 1..Len(reqs) :
       SetMethod(d, "POST") /\ Called("SetMethod", d, "POST", "", 0, NilTarget)
  \/ \E d \in 1..Len(reqs) :
       SetURL(d, "http://host") /\ Called("SetURL", d, "http://host", "", 0, NilTarget)
  \/ \E d \in 1..Len(reqs) :
       SetRequestBody(d, "ok") /\ Called("SetRequestBody", d, "ok", "", 0, NilTarget)
  \/ \E d \in 1..Len(reqs) :
       SetWantedResponseBody(d, PtrTarget(""))
         /\ Called("SetWantedResponseBody", d, "", "", 0, PtrTarget(""))
  \/ \E d \in 1..Len(reqs) :
       SetErrorResponseBody(d, NilTarget)
         /\ Called("SetErrorResponseBody", d, "", "", 0, NilTarget)
  \/ \E d \in 1..Len(reqs) :
       SetExpectedStatusCode(d, StatusInternalServerError)
         /\ Called("SetExpectedStatusCode", d, "", "", StatusInternalServerError, NilTarget)
  \/ \E d \in 1..Len(reqs), n \in 1..MaxRetries :
       EnableRetries(d, n) /\ Called("EnableRetries", d, "", "", n, NilTarget)
  \/ \E d \in 1..Len(reqs), k \in {"Accept", "X-Id"}, v \in {"application/xml", "7"} :
       AddHeader(d, k, v) /\ Called("AddHeader", d, k, v, 0, NilTarget)
  \/ \E d \in 1..Len(reqs) :
       SetAuthToken(d, "t") /\ Called("SetAuthToken", d, "t", "", 0, NilTarget)

SpecBuild == Init /\ [][NextBuild]_vars

\* SpecConc: two descriptors built one after the other, then sent concurrently
\* through the one client.
NextConc ==
  \/ Len(reqs) < 2 /\ NewRequest /\ Frame
  \/ \E d \in 1..Len(reqs) : SetURL(d, "http://host") /\ Frame
  \/ \E d \in 1..Len(reqs) : EnableRetries(d, MaxRetries) /\ Frame
  \/ \E d \in 1..Len(reqs) : BeginWrite(d) /\ Frame
  \/ \E d \in 1..Len(reqs) : EndWrite(d) /\ Frame
  \/ \E d \in 1..Len(reqs) : FailDo(d) /\ Frame
  \/ \E d \in 1..Len(reqs) : BeginRange(d) /\ Frame
  \/ \E d \in 1..Len(reqs) : EndRange(d) /\ Frame
  \/ \E d \in 1..Len(reqs), env \in SpecOutcomes : EndLoopDo(d, env) /\ Frame
  \/ \E d \in 1..Len(reqs), env \in SpecOutcomes : EndFinalDo(d, env) /\ Frame
  \/ Fatal /\ Frame

SpecConc == Init /\ [][NextConc]_vars

\* ---------------------------------------------------------------- properties
Descs == 1..Len(reqs)

IsPrefix(s, t) == Len(s) <= Len(t) /\ SubSeq(t, 1, Len(s)) = s

\* The body begins with a complete value: an object or the string.
Decodable(body) == ScanFrom(body, 1, "begin", "").res = "end"

\* The body begins with a complete value that fits the target: any value fits an
\* interface that holds no pointer, an object fits a struct.
DecodableInto(body, target) ==
  Decodable(body) /\ (target.kind = "ptr" => body[1] = "{")

\* A call of Do on d has returned after a response arrived.
Answered(d) == run[d].pc = "done" /\ run[d].env.kind = "resp"

\* The target holds what the value of the body says.
Populated(target, body) ==
  /\ target.kind # "nil"
  /\ body[1] = "a" => target = StrTarget
  /\ (body[1] = "{" /\ body[2] = "a") => target.val = "a"

\* The target the status of the response Do received selects.
Selected(d) ==
  IF run[d].env.status = reqs[d].expectedStatusCode
  THEN reqs[d].response ELSE reqs[d].errorResponse

\* C1: whenever Client.Do received a response with a body that is decodable into
\* the target its status selects, a status equal to the expected one gives a nil
\* error, the received bytes and a populated success target, and any other status
\* gives UnexpectedStatusCodeError, the received bytes and a populated error target.
C1_StatusGatesDecoding ==
  \A d \in Descs :
    (Answered(d) /\ DecodableInto(run[d].env.body, Selected(d))) =>
      LET e == run[d].env
          got == run[d].ret
      IN /\ got.returned
         /\ ~got.bytes.nil
         /\ IsPrefix(got.bytes.data, e.body)
         /\ Decodable(got.bytes.data)
         /\ IF e.status = reqs[d].expectedStatusCode
            THEN got.err = Nil /\ Populated(reqs[d].response, e.body)
            ELSE /\ got.err = UnexpectedStatusCodeError
                 /\ Populated(reqs[d].errorResponse, e.body)

C1_Witness ==
  \E d \in Descs :
    /\ Answered(d)
    /\ run[d].env.body = <<"{", "a", "}">>
    /\ run[d].env.status = StatusInternalServerError
    /\ reqs[d].expectedStatusCode = StatusOK
    /\ run[d].ret.err = UnexpectedStatusCodeError
    /\ reqs[d].errorResponse = PtrTarget("a")

\* C2: whenever Client.Do received a response, the bytes it returns are the whole
\* response body, whatever the decoder read of it.
C2_BytesAreWholeBody ==
  \A d \in Descs : Answered(d) => run[d].ret.bytes.data = run[d].env.body

\* C9: a Do that fails before dispatch returns nil bytes and the error of the failed
\* check, and nothing reaches the transport; an empty URL gives MissingURLError.
C9_PreDispatchFailure ==
  \A d \in Descs :
    (/\ run[d].pc = "done"
     /\ \/ reqs[d].URL \in {"", "::bad"}
        \/ reqs[d].Body = "+Inf"
        \/ reqs[d].Method = "BAD METHOD") =>
      /\ run[d].ret.returned
      /\ run[d].ret.bytes = NilBytes
      /\ run[d].ret.err \in {MissingURLError, ParseError, EncodeError, RequestBuildError}
      /\ reqs[d].URL = "" => run[d].ret.err = MissingURLError
      /\ \A k \in 1..Len(run[d].log) : ~run[d].log[k].sent /\ ~run[d].log[k].seen
      /\ run[d].env = NoEnv
      /\ reqs[d].statusCode = 0

C9_Witness ==
  \E d \in Descs :
    /\ run[d].pc = "done"
    /\ reqs[d].URL = "http://host"
    /\ reqs[d].Body = "+Inf"
    /\ run[d].ret = Result(NilBytes, EncodeError)
    /\ ~run[d].log[1].sent

\* C10: when the status differs from the expected one and the body does not decode
\* into the error target, Do returns the bytes it captured with the decoder's error
\* (a type error exactly when the body begins with a value that does not fit);
\* UnexpectedStatusCodeError comes only with an error body that decoded.
C10_DecodeFailurePrecedes ==
  \A d \in Descs :
    (Answered(d) /\ run[d].env.status # reqs[d].expectedStatusCode) =>
      LET e == run[d].env
          got == run[d].ret
      IN /\ ~DecodableInto(e.body, reqs[d].errorResponse) =>
              /\ got.err \in {SyntaxError, EOFError, UnexpectedEOFError, UnmarshalTypeError}
              /\ got.err = UnmarshalTypeError <=> Decodable(e.body)
              /\ IsPrefix(got.bytes.data, e.body)
              /\ e.body # <<>> => got.bytes.data # <<>>
         /\ got.err = UnexpectedStatusCodeError =>
              DecodableInto(e.body, reqs[d].errorResponse)

C10_Witness ==
  \E d \in Descs :
    /\ Answered(d)
    /\ run[d].env.status = StatusInternalServerError
    /\ reqs[d].expectedStatusCode = StatusOK
    /\ run[d].env.body = <<"{", "]">>
    /\ run[d].ret = Result(BufBytes(<<"{", "]">>), SyntaxError)

\* GetStatusCode()
GetStatusCode(r) == r.statusCode

\* C11: whenever a Do has returned after a response arrived, whatever its status and
\* whether or not its body decoded, GetStatusCode gives that response's status code.
C11_StatusCodeRecorded ==
  \A d \in Descs : Answered(d) => GetStatusCode(reqs[d]) = run[d].env.status

C11_Witness ==
  \E d \in Descs :
    /\ Answered(d)
    /\ run[d].env.status = StatusInternalServerError
    /\ reqs[d].expectedStatusCode = StatusOK
    /\ ~Decodable(run[d].env.body)
    /\ run[d].ret.err = SyntaxError
    /\ GetStatusCode(reqs[d]) = StatusInternalServerError

\* The number of c.Do calls the Do of d has made.
Attempts(d) == Len(run[d].log)

\* The pair the latest c.Do of d must have produced, read off the transport.
LastPair(d) ==
  LET l == run[d].log[Attempts(d)]
  IN Result(IF l.resp THEN BufBytes(run[d].env.body) ELSE NilBytes, l.err)

\* The number of requests the Do of d has handed to the transport.
Dispatched(d) == Cardinality({k \in 1..Attempts(d) : run[d].log[k].sent})

\* C3: a Do with retry count N > 0 dispatches at most N attempts, and with retry
\* count 0 it makes exactly one.
C3_AtMostNAttempts ==
  \A d \in Descs :
    /\ reqs[d].retries > 0 => Dispatched(d) <= reqs[d].retries
    /\ (reqs[d].retries = 0 /\ run[d].pc = "done") => Attempts(d) = 1

\* C4: with retry count N > 0, when the server answers attempts 0..N-2 with a
\* failure and attempt N-1 with a success, Do returns the success bytes and a nil
\* error, and the server has seen exactly N requests, with Retry-Count 0, 1, ..., N-1.
C4_RetryUntilSuccess ==
  \A d \in Descs :
    LET n == reqs[d].retries
        log == run[d].log
    IN (/\ n > 0
        /\ Attempts(d) >= n
        /\ \A k \in 1..(n - 1) : log[k].resp /\ log[k].err # Nil
        /\ log[n].resp /\ log[n].err = Nil) =>
         /\ run[d].pc = "done"
         /\ run[d].ret = Result(BufBytes(run[d].env.body), Nil)
         /\ Attempts(d) = n
         /\ \A k \in 1..n : log[k].seen /\ log[k].rc = Sprint(k - 1)

C4_Witness ==
  \E d \in Descs :
    /\ reqs[d].retries = MaxRetries
    /\ run[d].pc = "done"
    /\ Attempts(d) = MaxRetries
    /\ \A k \in 1..(MaxRetries - 1) : run[d].log[k].resp /\ run[d].log[k].err # Nil
    /\ run[d].log[MaxRetries].err = Nil
    /\ run[d].ret.err = Nil

\* C5: once an attempt of a Do returns no error, it is the last attempt, and Do has
\* returned that attempt's bytes with a nil error.
C5_ReturnOnFirstSuccess ==
  \A d \in Descs :
    \A k \in 1..Attempts(d) :
      run[d].log[k].err = Nil =>
        /\ k = Attempts(d)
        /\ run[d].pc = "done"
        /\ run[d].ret = Result(BufBytes(run[d].env.body), Nil)

C5_Witness ==
  \E d \in Descs :
    /\ reqs[d].retries = MaxRetries
    /\ Attempts(d) = 1
    /\ run[d].log[1].err = Nil
    /\ run[d].pc = "done"
    /\ run[d].ret.returned

\* C6: when every attempt of a Do failed, Do returns the bytes and the error of the
\* last attempt it made, and that error is not nil.
C6_LastFailureReturned ==
  \A d \in Descs :
    (/\ run[d].pc = "done"
     /\ \A k \in 1..Attempts(d) : run[d].log[k].err # Nil) =>
       /\ run[d].ret.returned
       /\ run[d].ret.err # Nil
       /\ run[d].ret = LastPair(d)

C6_Witness ==
  \E d \in Descs :
    /\ reqs[d].retries = MaxRetries
    /\ run[d].pc = "done"
    /\ Attempts(d) > 1
    /\ \A k \in 1..Attempts(d) : run[d].log[k].err # Nil
    /\ run[d].log[1].err # run[d].log[Attempts(d)].err
    /\ run[d].ret.err = run[d].log[Attempts(d)].err

\* C7: a call on one descriptor (AddHeader, SetAuthToken, a retry iteration) leaves
\* the headers every other descriptor holds as they were.
C7_HeadersOwned ==
  [][\A o \in Descs :
       actor' # o => HeldHeaders(reqs[o].Headers)' = HeldHeaders(reqs[o].Headers)]_vars

\* C8: every NewRequest returns method GET, expected status 200, retry count 0,
\* status code 0, no success target, the default error target, and exactly the two
\* default headers.
C8_NewRequestDefaults ==
  [][Len(reqs') = Len(reqs) + 1 =>
       LET r == reqs'[Len(reqs')]
       IN /\ r.Method = "GET"
          /\ r.expectedStatusCode = StatusOK
          /\ r.retries = 0
          /\ r.statusCode = 0
          /\ r.response = NilTarget
          /\ r.errorResponse = PtrTarget("")
          /\ HeldHeaders(r.Headers)' = DefaultHeaderMap]_vars

\* C12: when the latest attempt of a finished Do was dispatched at t0 to a server
\* that answers only after the client's timeout or after the end of the caller's
\* context, Do has returned nil bytes and the error of the deadline that came first,
\* at the time of that deadline and before the answer.
C12_DeadlineAborts ==
  \A d \in Descs :
    (run[d].pc = "done" /\ run[d].log[Attempts(d)].sent) =>
      LET hc == httpClients[client.httpClient]
          answer == net.start + net.delay
          timerAt == net.start + hc.Timeout
          ctxAt == IF ctx.done < net.start THEN net.start ELSE ctx.done
          timerFirst == hc.Timeout > 0 /\ timerAt < answer
          ctxFirst == ctx.cancels /\ ctxAt < answer
      IN (timerFirst \/ ctxFirst) =>
           /\ run[d].ret.returned
           /\ run[d].ret.bytes = NilBytes
           /\ run[d].ret.err \in {ClientTimeoutError, DeadlineExceededError, CanceledError}
           /\ now < answer
           /\ (timerFirst /\ (ctxFirst => timerAt < ctxAt)) =>
                now = timerAt /\ run[d].ret.err = ClientTimeoutError
           /\ (ctxFirst /\ (timerFirst => ctxAt < timerAt)) =>
                now = ctxAt /\ run[d].ret.err = ctx.err

\* The timeout test: timeout 1, a server that sleeps 3.
C12_Witness ==
  \E d \in Descs :
    /\ run[d].pc = "done"
    /\ run[d].log[Attempts(d)].sent
    /\ httpClients[client.httpClient].Timeout = 1
    /\ net.delay = 3
    /\ ~ctx.cancels
    /\ run[d].ret = Result(NilBytes, ClientTimeoutError)
    /\ now = net.start + 1

\* A caller's deadline that ends before the client's timeout.
C12_WitnessCtx ==
  \E d \in Descs :
    /\ run[d].pc = "done"
    /\ run[d].log[Attempts(d)].sent
    /\ httpClients[client.httpClient].Timeout = 2
    /\ ctx = DeadlineCtx(1)
    /\ net = [delay |-> 3, start |-> 0]
    /\ run[d].ret = Result(NilBytes, DeadlineExceededError)
    /\ now = 1

\* C13: whenever Do received a response, the decoder was the one of the declared
\* content type: a well-formed XML document declared application/xml and a JSON
\* object declared application/json populate the target the status selects, and any
\* other content type gives the invalid-content-type error.
C13_DecoderByContentType ==
  \A d \in Descs :
    Answered(d) =>
      LET e == run[d].env
          match == e.status = reqs[d].expectedStatusCode
          target == IF match THEN reqs[d].response ELSE reqs[d].errorResponse
          decoded == /\ run[d].ret.err = (IF match THEN Nil ELSE UnexpectedStatusCodeError)
                     /\ target.kind # "nil"
                     /\ target.val = "a"
      IN /\ (e.ct = "application/xml" /\ e.body = XMLDocument) => decoded
         /\ (e.ct = "application/json" /\ e.body = <<"{", "a", "}">>) => decoded
         /\ e.ct \notin {"application/json", "application/xml"} =>
              run[d].ret.err = InvalidContentTypeError

\* The largest index of S, 0 when S is empty.
Last(S) == IF S = {} THEN 0 ELSE CHOOSE k \in S : \A j \in S : j <= k

\* The index of the last WithHTTPClient among the first k options, 0 when none.
LastHTTPClient(k) == Last({j \in 1..k : opts[j].kind = "WithHTTPClient"})

\* The http.Client the Client points to once the first k options are applied.
CurrentAt(k) == IF LastHTTPClient(k) = 0 THEN 0 ELSE opts[LastHTTPClient(k)].httpClient

\* The http.Client as it was before NewClient.
Given(h) == IF h = 0 THEN ZeroHTTPClient ELSE CallerHTTPClient(h)

\* The http.Client `base` after the options of kind TLS / timeout with index in S.
Changed(base, S) ==
  LET tl == Last({k \in S : opts[k].kind = "WithTLSClientConfig"})
      to == Last({k \in S : opts[k].kind = "WithTimeout"})
  IN [Timeout |-> IF to = 0 THEN base.Timeout ELSE opts[to].td,
      Transport |-> IF tl = 0 THEN base.Transport ELSE Transport(opts[tl].tlsConfig)]

\* C14: the resulting HTTP client is the one the last WithHTTPClient gave (the
\* default one if none), in the state the caller gave it, changed only by the TLS
\* and timeout options after it, the last of each kind winning and a later
\* WithTLSClientConfig replacing the transport wholesale; TLS and timeout options
\* before the last WithHTTPClient have no effect on the result.
C14_LastWins ==
  LET n == Len(opts)
      hc == LastHTTPClient(n)
  IN /\ client.httpClient = CurrentAt(n)
     /\ httpClients[client.httpClient] = Changed(Given(CurrentAt(n)), (hc + 1)..n)

\* C15: TLSConfig returns nil and the missing-paths error whenever the cert path or
\* the key path is empty, whatever the CA path; otherwise a CA file that cannot be
\* read or parsed is reported whatever the key pair is like, an empty CA path is
\* accepted, and every error comes with a nil configuration.
C15_TLSConfigErrors ==
  tls.called =>
    /\ (tls.TLSCert = "" \/ tls.TLSKey = "") =>
         tls.conf = NilTLSConf /\ tls.err = MissingPathsError
    /\ (tls.TLSCert # "" /\ tls.TLSKey # "") =>
         /\ tls.TLSCA = "missing" => tls.err = ReadCAError
         /\ tls.TLSCA = "garbage" => tls.err = ParseCAError
         /\ (tls.TLSCA = "" /\ tls.TLSCert = "cert.pem" /\ tls.TLSKey = "key.pem") =>
              /\ tls.err = Nil
              /\ tls.conf = TLSConf(tls.insecureSkipVerify, "", <<"cert.pem">>)
         /\ (tls.TLSCA \in {"", "ca.pem"}
               /\ ~(tls.TLSCert = "cert.pem" /\ tls.TLSKey = "key.pem")) =>
              tls.err = KeyPairError
    /\ tls.err # Nil => tls.conf = NilTLSConf
    /\ tls.err = Nil => ~tls.conf.nil

\* An unparsable CA file together with a key that does not fit the certificate.
C15_Witness ==
  /\ tls.called
  /\ tls.TLSCA = "garbage"
  /\ tls.TLSCert = "cert.pem"
  /\ tls.TLSKey = "other.key"
  /\ tls.err = ParseCAError
  /\ tls.conf = NilTLSConf

\* The field of the descriptor a builder method writes, "" for the header methods.
FieldOf(op) ==
  CASE op = "SetMethod" -> "Method"
    [] op = "SetURL" -> "URL"
    [] op = "SetRequestBody" -> "Body"
    [] op = "SetWantedResponseBody" -> "response"
    [] op = "SetErrorResponseBody" -> "errorResponse"
    [] op = "SetExpectedStatusCode" -> "expectedStatusCode"
    [] op = "EnableRetries" -> "retries"
    [] OTHER -> ""

\* The header entry a builder method writes.
EntryOf(c) ==
  CASE c.op = "AddHeader" -> [key |-> c.str, value |-> c.value]
    [] c.op = "SetAuthToken" -> [key |-> "Authorization", value |-> "Bearer t"]
    [] OTHER -> [key |-> "", value |-> ""]

\* C16: every call of a builder method returns the descriptor it was called on,
\* gives the one field of that descriptor the method names its argument and leaves
\* the other fields as they were; AddHeader(k, v) makes header k equal to v and
\* SetAuthToken("t") makes Authorization equal to "Bearer t" with every other header
\* entry as it was, and the other methods leave the headers as they were.
C16_SettersFrame ==
  [][call' # call =>
       LET c == call'
           r == reqs[c.d]
           r2 == reqs'[c.d]
           h == HeldHeaders(r.Headers)
           h2 == HeldHeaders(r2.Headers)'
           e == EntryOf(c)
       IN /\ c.ret = c.d
          /\ Len(reqs') = Len(reqs)
          /\ \A f \in DOMAIN r : f # FieldOf(c.op) => r2[f] = r[f]
          /\ c.op \in {"SetMethod", "SetURL", "SetRequestBody"} => r2[FieldOf(c.op)] = c.str
          /\ c.op \in {"SetWantedResponseBody", "SetErrorResponseBody"} =>
               r2[FieldOf(c.op)] = c.target
          /\ c.op \in {"SetExpectedStatusCode", "EnableRetries"} =>
               r2[FieldOf(c.op)] = c.num
          /\ IF c.op \in {"AddHeader", "SetAuthToken"}
             THEN /\ DOMAIN h2 = DOMAIN h \cup {e.key}
                  /\ h2[e.key] = e.value
                  /\ \A k \in DOMAIN h : k # e.key => h2[k] = h[k]
             ELSE h2 = h]_vars

\* AddHeader("X-Id", "7") was called on a descriptor that already held an
\* Authorization header and a POST method: all three are there.
C16_Witness ==
  /\ call.op = "AddHeader"
  /\ call.str = "X-Id"
  /\ call.value = "7"
  /\ call.ret = call.d
  /\ reqs[call.d].Method = "POST"
  /\ HeldHeaders(reqs[call.d].Headers) =
       [k \in {"Content-Type", "Accept", "Authorization", "X-Id"} |->
          CASE k = "Authorization" -> "Bearer t"
            [] k = "X-Id" -> "7"
            [] OTHER -> "application/json"]

\* C17: during one Do with retry count N > 0, every request handed to the transport
\* carries the zero-based index of its attempt as Retry-Count, so no two requests of
\* the Do carry the same value.
C17_DistinctRetryCounts ==
  \A d \in Descs :
    reqs[d].retries > 0 =>
      /\ \A k \in 1..Attempts(d) :
           run[d].log[k].sent => run[d].log[k].rc = Sprint(k - 1)
      /\ \A j, k \in 1..Attempts(d) :
           (j < k /\ run[d].log[j].sent /\ run[d].log[k].sent) =>
             run[d].log[j].rc # run[d].log[k].rc

\* GetErrorResponse()
GetErrorResponse(r) == r.errorResponse

\* C18: after a Do with several attempts has returned, the status code and the error
\* target are those of the last attempt: when the last attempt received no response
\* the status code is still 0, and when it did not decode an error body (it got no
\* response, or it succeeded) the error target is as it was before the Do.
C18_LastAttemptOnly ==
  \A d \in Descs :
    run[d].pc = "done" =>
      LET l == run[d].log[Attempts(d)]
      IN /\ ~l.resp => GetStatusCode(reqs[d]) = 0
         /\ (~l.resp \/ l.err = Nil) => GetErrorResponse(reqs[d]) = PtrTarget("")

\* C20: every attempt of a Do that received a response decodes into one target:
\* when the status differs from the expected one the success target is as it was
\* before the attempt, and when it is the expected one the error target is as it was.
C20_OneTargetPerAttempt ==
  [][\A d \in Descs :
       (/\ Len(run'[d].log) = Len(run[d].log) + 1
        /\ run'[d].log[Len(run'[d].log)].resp) =>
         IF run'[d].env.status # reqs[d].expectedStatusCode
         THEN reqs'[d].response = reqs[d].response
         ELSE reqs'[d].errorResponse = reqs[d].errorResponse]_vars

\* After two attempts answered 500 with a decodable body, the error target holds the
\* body and the caller's success target is still empty.
C20_Witness ==
  \E d \in Descs :
    /\ Attempts(d) = 2
    /\ \A k \in 1..2 : run[d].log[k].resp /\ run[d].log[k].err = UnexpectedStatusCodeError
    /\ run[d].env.status = StatusInternalServerError
    /\ reqs[d].expectedStatusCode = StatusOK
    /\ reqs[d].errorResponse = PtrTarget("a")
    /\ reqs[d].response = PtrTarget("")

\* C19: two Do running concurrently on two descriptors through one client do not
\* interfere: the client stays as it was built, no goroutine is inside a map while
\* another writes it, the program is not ended by the runtime, and every request of
\* a retry loop leaves with the Retry-Count its own Do set for it.
C19_NoInterference ==
  /\ client = [logger |-> DefaultLogger, httpClient |-> 0]
  /\ httpClients[0] = ZeroHTTPClient
  /\ ~MapRace
  /\ \A d \in Descs :
       /\ run[d].pc # "fatal"
       /\ \A k \in 1..Attempts(d) :
            (run[d].log[k].sent /\ k <= reqs[d].retries) =>
              run[d].log[k].rc = Sprint(k - 1)

\* C21: NewClient modifies no object of the caller: every http.Client the caller
\* owned before a call has the same Transport and Timeout after it, and a second
\* NewClient leaves the http.Client of the Client built before as it was.
C21_NoSideEffect ==
  [][/\ \A h \in 1..MaxHTTPClients : httpClients'[h] = httpClients[h]
     /\ DOMAIN httpClients' # DOMAIN httpClients =>
          httpClients'[client.httpClient] = httpClients[client.httpClient]]_vars

\* C22: the checks of Do before dispatch run in the order empty URL, URL parse,
\* body encoding, request construction: every c.Do of a send ended with the error of
\* the earliest of these steps that fails for the descriptor, whatever later steps
\* would fail too, and with no such error when none of them fails.
C22_EarliestCheckFails ==
  \A d \in Descs :
    \A k \in 1..Attempts(d) :
      LET r == reqs[d]
          e == run[d].log[k].err
          urlEmpty == r.URL = ""
          urlBad == r.URL = "::bad"
          bodyBad == r.Body = "+Inf"
          methodBad == r.Method = "BAD METHOD"
      IN /\ urlEmpty => e = MissingURLError
         /\ (~urlEmpty /\ urlBad) => e = ParseError
         /\ (~urlEmpty /\ ~urlBad /\ bodyBad) => e = EncodeError
         /\ (~urlEmpty /\ ~urlBad /\ ~bodyBad /\ methodBad) => e = RequestBuildError
         /\ (~urlEmpty /\ ~urlBad /\ ~bodyBad /\ ~methodBad) =>
              e \notin {MissingURLError, ParseError, EncodeError, RequestBuildError}

\* A descriptor whose URL, body and method all fail: the URL parse error is returned.
C22_Witness ==
  \E d \in Descs :
    /\ run[d].pc = "done"
    /\ reqs[d].URL = "::bad"
    /\ reqs[d].Body = "+Inf"
    /\ reqs[d].Method = "BAD METHOD"
    /\ run[d].ret.returned
    /\ run[d].ret.err = ParseError

\* C23: the request a Do dispatched carries every entry of the header map, each
\* header name with exactly one value, and that value is the value of an entry of
\* that name as the map holds it.
C23_OneValuePerName ==
  \A d \in Descs :
    (run[d].pc = "done" /\ run[d].log[1].sent) =>
      /\ \A k \in DOMAIN defaultHeaders : Canon(k) \in DOMAIN wire
      /\ \A c \in DOMAIN wire :
           /\ BagCardinality(wire[c]) = 1
           /\ \E k \in DOMAIN defaultHeaders : Canon(k) = c /\ BagIn(defaultHeaders[k], wire[c])

\* The first value of the response's Content-Type header, "" when it has none.
DeclaredType ==
  IF "Content-Type" \in DOMAIN dec.resp.Header /\ Len(dec.resp.Header["Content-Type"]) > 0
  THEN Head(dec.resp.Header["Content-Type"]) ELSE ""

\* C24: decodeResponse dispatches on the value of the Content-Type header: exactly
\* application/json gives what the JSON decoder makes of the body, exactly
\* application/xml what the XML decoder makes of it, and any other value, an absent
\* header included, gives the invalid-content-type error with the body unread and
\* the result untouched.
C24_DispatchOnContentType ==
  dec.called =>
    LET body == dec.resp.Body
        json == body = <<"{", "a", "}">>
        xml == body = XMLDocument
        filled == dec.result.kind = "ptr" => dec.ret.result = PtrTarget("a")
    IN /\ DeclaredType = "application/json" =>
            /\ json => dec.ret.err = Nil /\ filled
            /\ xml => dec.ret.err = SyntaxError /\ dec.ret.result = dec.result
            /\ body = <<>> => dec.ret.err = EOFError
       /\ DeclaredType = "application/xml" =>
            /\ xml => dec.ret.err = Nil /\ filled
            /\ json => dec.ret.err = EOFError /\ dec.ret.result = dec.result
            /\ body = <<>> => dec.ret.err = EOFError
       /\ DeclaredType \notin {"application/json", "application/xml"} =>
            /\ dec.ret.err = InvalidContentTypeError
            /\ dec.ret.read = 0
            /\ dec.ret.result = dec.result

\* An XML document declared application/xml fills the caller's struct.
C24_Witness ==
  /\ dec.called
  /\ DeclaredType = "application/xml"
  /\ dec.resp.Body = XMLDocument
  /\ dec.result = PtrTarget("")
  /\ dec.ret = [err |-> Nil, result |-> PtrTarget("a"), read |-> 1]

\* A JSON body declared "application/json; charset=utf-8" is refused unread.
C24_WitnessRefused ==
  /\ dec.called
  /\ DeclaredType = "application/json; charset=utf-8"
  /\ dec.resp.Body = <<"{", "a", "}">>
  /\ dec.ret.err = InvalidContentTypeError
  /\ dec.ret.read = 0

\* C25: whenever Do has returned a nil error, its last attempt was dispatched and
\* received a response whose status is the expected one and whose body begins with
\* a complete value that fits the success target, the success target holds what
\* that value says, and GetStatusCode gives the expected status.
C25_NilErrorMeansSuccess ==
  \A d \in Descs :
    (run[d].pc = "done" /\ run[d].ret.returned /\ run[d].ret.err = Nil) =>
      LET l == run[d].log[Attempts(d)]
      IN /\ l.sent
         /\ l.resp
         /\ run[d].env.status = reqs[d].expectedStatusCode
         /\ DecodableInto(run[d].env.body, reqs[d].response)
         /\ Populated(reqs[d].response, run[d].env.body)
         /\ GetStatusCode(reqs[d]) = reqs[d].expectedStatusCode

\* A Do with retries whose first attempt met a failing server and whose second was
\* answered as expected: nil error, the caller's struct filled.
C25_Witness ==
  \E d \in Descs :
    /\ reqs[d].retries = MaxRetries
    /\ run[d].pc = "done"
    /\ Attempts(d) = 2
    /\ run[d].log[1].err # Nil
    /\ run[d].ret.err = Nil
    /\ run[d].env = Response(reqs[d].expectedStatusCode, <<"{", "a", "}">>, 0)
    /\ reqs[d].response = PtrTarget("a")
    /\ reqs[d].statusCode = reqs[d].expectedStatusCode

====
